---- MODULE Spec2Model ----
(***************************************************************************)
(* A model of SiEPIC/core.py: the netlist data model (Net, Pin, Component) *)
(* and the three dialogs (WaveguideGUI, CalibreGUI, MonteCarloGUI).        *)
(*                                                                         *)
(* Conventions                                                             *)
(*  - A Python value that may be None is a sequence: <<>> is None and      *)
(*    <<v>> is the value v.  A two-point Path or a Box is the sequence of  *)
(*    its two points, and None is again <<>>.                              *)
(*  - A pya.Point is a record [x, y] of integers (database units).         *)
(*  - Object references (Net, Component) are names (strings).              *)
(*  - Each class has its own specification (SpecPin, SpecComponent, ...)   *)
(*    that moves only that class's variables.                              *)
(***************************************************************************)
EXTENDS Integers, Sequences, FiniteSets, TLC

VARIABLES
    pin,          \* the Pin object: a record of its attributes
    pin_net_arg,  \* the `net` argument the Pin was constructed with
    pin_polygon_arg, \* the `polygon` argument the Pin was constructed with
    pin_trans,    \* whether the argument of the last transform() call was the
                  \* identity, <<>> if none yet
    pin_ret,      \* what the last transform() call returned, <<>> if none yet
    comp,         \* the Component object: a record of its attributes
    comp_found,   \* what the last find_pins() call returned, <<>> if none yet
    active_tech,  \* the name of the active technology, <<>> while it is unset
    hm_result,    \* the outcome of the last has_model() call, <<>> if none yet
    hm_tech,      \* the active technology at the last has_model() call
    nets,         \* the Net objects constructed so far, in order
    view,         \* the layers of the host's current view, <<>> while no view is open
    wg,           \* the WaveguideGUI object and the widgets of its window
    dlg,          \* CalibreGUI and MonteCarloGUI: status and window of each
    dlg_set,      \* per dialog: the status the most recent ok()/close() set, <<>> if none
    dlg_reads,    \* per dialog: return_status() calls since then (counted to 2)
    gui_call      \* the last call on one of the three dialogs and what it returned

pinvars == <<pin, pin_net_arg, pin_polygon_arg, pin_trans, pin_ret>>
compvars == <<comp, comp_found, active_tech, hm_result, hm_tech>>
netvars == <<nets>>
wgvars == <<view, wg>>
dlgvars == <<dlg, dlg_set, dlg_reads>>
vars == <<pinvars, compvars, netvars, wgvars, dlgvars, gui_call>>

\* What a step of one class leaves alone: the variables of the other classes.
notpin == <<compvars, netvars, wgvars, dlgvars, gui_call>>
notcomp == <<pinvars, netvars, wgvars, dlgvars, gui_call>>
notnet == <<pinvars, compvars, wgvars, dlgvars, gui_call>>
notwg == <<pinvars, compvars, netvars, dlgvars>>
notdlg == <<pinvars, compvars, netvars, wgvars>>

None == <<>>
Some(v) == <<v>>

\* ------------------------------------------------------------------ bounds

\* Coordinates of the points a Pin is constructed from lie in -MaxCoord..MaxCoord.
MaxCoord == 1
\* transform() is applied only while every coordinate stays in -MaxAbs..MaxAbs.
MaxAbs == 2

Coord == (0 - MaxCoord)..MaxCoord
Points == [x : Coord, y : Coord]

\* ---------------------------------------------------------- pya geometry

Pt(px, py) == [x |-> px, y |-> py]

\* Point + Point and Point - Point, component-wise.
PointAdd(a, b) == Pt(a.x + b.x, a.y + b.y)
PointSub(a, b) == Pt(a.x - b.x, a.y - b.y)

\* n * 0.5 rounded to an integer coordinate: pya rounds a scaled coordinate to
\* the nearest integer, a half away from zero.
HalfRounded(n) == IF n >= 0 THEN (n + 1) \div 2 ELSE 0 - ((1 - n) \div 2)

\* Point * 0.5
PointHalf(p) == Pt(HalfRounded(p.x), HalfRounded(p.y))

\* Box.center(): the lower-left corner plus half the extent (integer division).
BoxCenter(b) == Pt(b[1].x + ((b[2].x - b[1].x) \div 2), b[1].y + ((b[2].y - b[1].y) \div 2))

\* A pya.Trans: mirror at the x axis first (when mirror), then rotate by
\* rot * 90 degrees counter-clockwise, then displace by disp.
Rot90(p, k) ==
    CASE k = 0 -> p
      [] k = 1 -> Pt(0 - p.y, p.x)
      [] k = 2 -> Pt(0 - p.x, 0 - p.y)
      [] k = 3 -> Pt(p.y, 0 - p.x)

TransPoint(t, p) ==
    LET m == IF t.mirror THEN Pt(p.x, 0 - p.y) ELSE p
    IN  PointAdd(Rot90(m, t.rot), t.disp)

\* Path.transformed(trans): every point of the path transformed.
PathTransformed(path, t) == [i \in DOMAIN path |-> TransPoint(t, path[i])]

\* Path.get_points(): the list of the path's points.
get_points(path) == path

Disps == {Pt(0, 0), Pt(1, 0), Pt(0, 0 - 1)}
Transforms == [rot : 0..3, mirror : BOOLEAN, disp : Disps]
Identity == [rot |-> 0, mirror |-> FALSE, disp |-> Pt(0, 0)]

Sign(n) == IF n > 0 THEN 1 ELSE IF n < 0 THEN 0 - 1 ELSE 0

\* utils.angle_vector(u): the direction of the vector u in degrees, by a
\* two-argument arctangent over (u.y, u.x), in 0..359; atan2(0, 0) is 0.
\* Exact for the vectors of the model, which are axis-parallel or diagonal.
angle_vector(u) ==
    LET sx == Sign(u.x)
        sy == Sign(u.y)
    IN  CASE sx = 0 /\ sy = 0 -> 0
          [] sx = 1 /\ sy = 0 -> 0
          [] sx = 1 /\ sy = 1 -> 45
          [] sx = 0 /\ sy = 1 -> 90
          [] sx = 0 - 1 /\ sy = 1 -> 135
          [] sx = 0 - 1 /\ sy = 0 -> 180
          [] sx = 0 - 1 /\ sy = 0 - 1 -> 225
          [] sx = 0 /\ sy = 0 - 1 -> 270
          [] sx = 1 /\ sy = 0 - 1 -> 315

\* The vectors angle_vector is exact for.
Octant(u) == u.x = 0 \/ u.y = 0 \/ u.x = u.y \/ u.x = 0 - u.y

\* ------------------------------------------------------------------ _globals

PIN_TYPES == {"OPTICALIO", "OPTICAL", "ELECTRICAL"}

\* The process-wide sentinel Net of a Pin that is not connected.
NET_DISCONNECTED == "NET_DISCONNECTED"

\* ------------------------------------------------------------------ Pin

\* Pin.__init__(path, _type, box, polygon, component, net, pin_name).
\* A polygon is given by its bounding box; `center` is None while no geometry
\* has set it (the attribute does not exist then).
Pin_init(path, type, box, polygon, component, net, pin_name) ==
    LET pts == get_points(path)
        c0 == IF path # None THEN Some(PointHalf(PointAdd(pts[1], pts[2]))) ELSE None
        c1 == IF box # None THEN Some(BoxCenter(box)) ELSE c0
        c2 == IF polygon # None THEN Some(BoxCenter(polygon)) ELSE c1
    IN  [ path      |-> path,
          center    |-> c2,
          rotation  |-> IF path # None THEN angle_vector(PointSub(pts[2], pts[1])) ELSE 0,
          box       |-> box,
          type      |-> type,
          net       |-> IF net # None THEN net[1] ELSE NET_DISCONNECTED,
          pin_name  |-> pin_name,
          component |-> component ]

\* The Pin that transform() of the upstream gap closed would give: a Pin
\* without a path has its box and center moved as well.
Pin_transform_box(self, trans) ==
    IF self.path # None
    THEN LET p == PathTransformed(self.path, trans)
             pts == get_points(p)
         IN  [self EXCEPT !.path = p,
                          !.center = Some(PointHalf(PointAdd(pts[1], pts[2]))),
                          !.rotation = angle_vector(PointSub(pts[1], pts[2]))]
    ELSE [self EXCEPT !.box = IF self.box # None THEN PathTransformed(self.box, trans) ELSE None,
                      !.center = IF self.center # None
                                 THEN Some(TransPoint(trans, self.center[1])) ELSE None]

\* transform() that moves the path and forgets to recompute the center.
Pin_transform_stale(self, trans) ==
    IF self.path # None
    THEN LET p == PathTransformed(self.path, trans)
             pts == get_points(p)
         IN  [self EXCEPT !.path = p,
                          !.rotation = angle_vector(PointSub(pts[1], pts[2]))]
    ELSE self

\* transform() that rebuilds the Pin and so drops its net.
Pin_transform_unbind(self, trans) ==
    IF self.path # None
    THEN LET p == PathTransformed(self.path, trans)
             pts == get_points(p)
         IN  [self EXCEPT !.path = p,
                          !.center = Some(PointHalf(PointAdd(pts[1], pts[2]))),
                          !.rotation = angle_vector(PointSub(pts[1], pts[2])),
                          !.net = NET_DISCONNECTED]
    ELSE self

\* Pin.transform(trans): the Pin after the call (the call returns self).
Pin_transform(self, trans) ==
    IF self.path # None
    THEN LET p == PathTransformed(self.path, trans)
             pts == get_points(p)
         IN  [self EXCEPT !.path = p,
                          !.center = Some(PointHalf(PointAdd(pts[1], pts[2]))),
                          !.rotation = angle_vector(PointSub(pts[1], pts[2]))]
    ELSE self

\* The paths, boxes and nets a Pin is constructed from.
PinPaths == {p \in [1..2 -> Points] : Octant(PointSub(p[2], p[1]))}
PinBoxes == { <<Pt(0 - MaxCoord, 0 - MaxCoord), Pt(MaxCoord, MaxCoord)>>,
              <<Pt(0, 0), Pt(2 * MaxCoord, 0)>> }
\* A polygon is given by its bounding box.
PinPolygons == { <<Pt(0, 0), Pt(MaxCoord, MaxCoord)>> }
\* _type is None (the default) or one of PIN_TYPES.
PinTypeArgs == {None} \cup {Some(t) : t \in PIN_TYPES}
PinNetArgs == {None, Some("net0"), Some("net1")}

InRange(p) ==
    /\ p.x >= 0 - MaxAbs /\ p.x <= MaxAbs
    /\ p.y >= 0 - MaxAbs /\ p.y <= MaxAbs

\* The state after Pin(path, _type, box, polygon, component, net, pin_name):
\* each of path, box and polygon is given or left at its default None, in
\* every combination, and _type is one of PIN_TYPES or left at its default.
InitPin ==
    /\ \E path \in {None} \cup PinPaths,
          box \in {None} \cup PinBoxes,
          polygon \in {None} \cup PinPolygons,
          type \in PinTypeArgs,
          net \in PinNetArgs :
         /\ pin = Pin_init(path, type, box, polygon, "component0", net, "pin1")
         /\ pin_net_arg = net
         /\ pin_polygon_arg = polygon
    /\ pin_trans = None
    /\ pin_ret = None

PinTransform ==
    \E trans \in Transforms :
       /\ \A i \in DOMAIN pin.path : InRange(TransPoint(trans, pin.path[i]))
       /\ pin' = Pin_transform(pin, trans)
       /\ pin_trans' = Some(trans = Identity)
       /\ pin_ret' = Some(pin')
       /\ UNCHANGED <<pin_net_arg, pin_polygon_arg, notpin>>

\* ------------------------------------------------------------------ Net

\* Net.__init__(idx, _type, pins): the attributes are stored as given.
Net_init(idx, type, pins) == [idx |-> idx, type |-> type, pins |-> pins]

\* At most MaxNets Net objects are constructed.
MaxNets == 2

PinNames == <<"pin1", "pin2", "pin3">>
\* The pin lists a Net is constructed with: the first n pins, n = 0..3.
NetPinLists == {SubSeq(PinNames, 1, n) : n \in 0..Len(PinNames)}
NetIdxArgs == {None, Some(0), Some(1)}
NetTypeArgs == {None} \cup {Some(t) : t \in PIN_TYPES}
NetPinsArgs == {None} \cup {Some(l) : l \in NetPinLists}

InitNet == nets = <<>>

NetConstruct ==
    /\ Len(nets) < MaxNets
    /\ \E idx \in NetIdxArgs, type \in NetTypeArgs, pins \in NetPinsArgs :
         nets' = Append(nets, Net_init(idx, type, pins))
    /\ UNCHANGED notnet

\* ------------------------------------------------------------------ technology

\* The technologies the host has installed, and the names the active
\* technology can carry ("Stale" names a technology that is not installed).
InstalledTechs == {"EBeam", "GSiP"}
TechNames == InstalledTechs \cup {"Stale"}

\* str.lower() on the names of the model.
Lower(s) ==
    CASE s = "EBeam" -> "ebeam"
      [] s = "GSiP" -> "gsip"
      [] s = "Stale" -> "stale"
      [] s = "ebeam_y_1550" -> "ebeam_y_1550"
      [] s = "Ring_Filter" -> "ring_filter"

\* utils.get_technology(): the mapping of the active technology; a mapping
\* without 'technology_name' while no technology is active.
get_technology(active) ==
    IF active = None THEN <<>>
    ELSE [technology_name |-> active[1], dbu |-> "0.001"]

\* utils.get_technology_by_name(name): the mapping of an installed technology;
\* a mapping without 'technology_name' for a name that is not installed.
get_technology_by_name(name) ==
    IF name \in InstalledTechs THEN [technology_name |-> name, dbu |-> "0.001"]
    ELSE <<>>

\* _globals.INTC_ELEMENTS: the compact models, "design kits::<tech>::<component>"
\* as the triple of its parts.
INTC_ELEMENTS == {<<"design kits", "ebeam", "ebeam_y_1550">>}

\* ------------------------------------------------------------------ Component

\* At most MaxPins pins are passed to a Component or discovered in its cell.
MaxPins == 2

CompPinLists == UNION {[1..n -> {"pin1", "pin2"}] : n \in 0..MaxPins}

\* Component.__init__(...): TECHNOLOGY is what get_technology() returns, and
\* Dcenter is the center with the database unit that scales it.
Component_init(idx, component, pins, polygon, TECHNOLOGY) ==
    LET center == BoxCenter(polygon)
    IN  [ idx       |-> idx,
          component |-> component,
          pins      |-> pins,
          npins     |-> Len(pins),
          polygon   |-> polygon,
          center    |-> center,
          Dcenter   |-> [x |-> center.x, y |-> center.y, dbu |-> TECHNOLOGY.dbu] ]

\* Component.has_model(): "True", "False", or the exception that leaves it.
Component_has_model(self, active) ==
    LET T1 == get_technology(active)
    IN  IF "technology_name" \notin DOMAIN T1 THEN "KeyError"
        ELSE LET T2 == get_technology_by_name(T1.technology_name)
             IN  IF "technology_name" \notin DOMAIN T2 THEN "KeyError"
                 ELSE IF <<"design kits", Lower(T2.technology_name), Lower(self.component)>>
                           \in INTC_ELEMENTS
                      THEN "True" ELSE "False"

\* The state after Component(...), constructed under an installed technology.
InitComponent ==
    /\ \E tech \in InstalledTechs :
         /\ active_tech = Some(tech)
         /\ \E component \in {"ebeam_y_1550", "Ring_Filter"}, pins \in CompPinLists :
              comp = Component_init(0, component, pins, <<Pt(0, 0), Pt(2, 4)>>,
                                    get_technology(Some(tech)))
    /\ comp_found = None
    /\ hm_result = None
    /\ hm_tech = None

\* Component.find_pins(): returns what cell.find_pins_component(self) discovers
\* in the cell; self.pins and self.npins are not written.
ComponentFindPins ==
    /\ \E discovered \in CompPinLists : comp_found' = Some(discovered)
    /\ UNCHANGED <<comp, active_tech, hm_result, hm_tech, notcomp>>

\* The caller of find_pins() assigns the discovered list: c.pins = c.find_pins().
ComponentAssignPins ==
    /\ comp_found # None
    /\ comp' = [comp EXCEPT !.pins = comp_found[1]]
    /\ UNCHANGED <<comp_found, active_tech, hm_result, hm_tech, notcomp>>

ComponentHasModel ==
    /\ hm_result' = Some(Component_has_model(comp, active_tech))
    /\ hm_tech' = active_tech
    /\ UNCHANGED <<comp, comp_found, active_tech, notcomp>>

\* The host changes the active technology, or closes the last view (unset).
SetTechnology ==
    /\ \E t \in {None} \cup {Some(n) : n \in TechNames} :
         /\ t # active_tech
         /\ active_tech' = t
    /\ UNCHANGED <<comp, comp_found, hm_result, hm_tech, notcomp>>

\* ------------------------------------------------------------------ Qt widgets

\* QTableWidget.removeRow(row): the row is removed when it exists; a row index
\* past the last row removes nothing.  Rows are counted from 0.
removeRow(rows, row) ==
    IF row >= 0 /\ row < Len(rows)
    THEN SubSeq(rows, 1, row) \o SubSeq(rows, row + 2, Len(rows))
    ELSE rows

\* QTableWidget.insertRow(row) followed by the three setCellWidget calls that
\* fill the new row; a row index past the end inserts nothing.
insertRow(rows, row, cells) ==
    IF row >= 0 /\ row <= Len(rows)
    THEN SubSeq(rows, 1, row) \o <<cells>> \o SubSeq(rows, row + 1, Len(rows))
    ELSE rows

\* QComboBox.currentText: the current item, "" (here <<>>) when there is none.
currentText(combo) ==
    IF combo.index >= 0 /\ combo.index < Len(combo.items)
    THEN combo.items[combo.index + 1] ELSE <<>>

\* QComboBox.clear() and addItems(items): adding to an empty combo box makes
\* its first item current.
comboOf(items) == [items |-> items, index |-> IF items = <<>> THEN 0 - 1 ELSE 0]

\* QComboBox.setCurrentIndex(i): an index with no item leaves no current item.
setCurrentIndex(combo, i) ==
    [combo EXCEPT !.index = IF i >= 0 /\ i < Len(combo.items) THEN i ELSE 0 - 1]

\* text.split(' - ')[0] of a layer text "name - source": the name; "" of "".
LayerName(text) == IF text = <<>> THEN "" ELSE text[1]

\* What a line edit can hold.
Texts == {"0.5", "2", "abc"}

\* float(text): numbers are counted in eighths, so that the halves and
\* quarters get_parameters takes are exact; <<>> is a ValueError.
float(text) ==
    CASE text = "0" -> Some(0)
      [] text = "0.5" -> Some(4)
      [] text = "2" -> Some(16)
      [] OTHER -> None

\* ------------------------------------------------------------------ WaveguideGUI

\* The spin box numLayers takes values 0..MaxLayers.
MaxLayers == 2
\* The user edits at most MaxEdits line edits.
MaxEdits == 1

Radios == {"radioStrip", "radioRib", "radioSlot", "radioCustom"}
LineEdits == {"radius", "bezier", "stripWidth", "ribWidth1", "ribWidth2",
              "slotWidth1", "slotWidth2"}
Combos == {"stripLayer", "ribLayer1", "ribLayer2", "slotLayer"}

\* The layers of an open view: name and source (up to '@') of each.
ViewLayers == << <<"Si", "1/0">>, <<"SiN", "4/0">>, <<"M1", "11/0">> >>

\* WaveguideGUI.updateFields(val): which widgets are enabled follows from the
\* radio button that is checked and from the adiabatic check box.
Enabled(w, widget) ==
    CASE widget \in {"stripWidth", "stripLayer"} -> w.radio = "radioStrip"
      [] widget \in {"ribWidth1", "ribWidth2", "ribLayer1", "ribLayer2"} -> w.radio = "radioRib"
      [] widget \in {"slotWidth1", "slotWidth2", "slotLayer"} -> w.radio = "radioSlot"
      [] widget \in {"numLayers", "layerTable"} -> w.radio = "radioCustom"
      [] widget = "bezier" -> w.adiabatic
      [] OTHER -> TRUE

\* The row updateTable fills in: a combo box of self.layers and the line edits
\* "0.5" and "0".
NewRow(layers) == [layer |-> comboOf(layers), width |-> "0.5", offset |-> "0"]

RECURSIVE RemoveRows(_, _, _)
\* for i in range(i, cur): table.removeRow(i)
RemoveRows(rows, i, cur) ==
    IF i >= cur THEN rows ELSE RemoveRows(removeRow(rows, i), i + 1, cur)

RECURSIVE InsertRows(_, _, _, _)
\* for i in range(i, val): table.insertRow(i); table.setCellWidget(i, ...)
InsertRows(rows, i, val, layers) ==
    IF i >= val THEN rows
    ELSE InsertRows(insertRow(rows, i, NewRow(layers)), i + 1, val, layers)

\* WaveguideGUI.updateTable(val): the rows of layerTable after the call.
WaveguideGUI_updateTable(w, val) ==
    LET cur == Len(w.rows)
    IN  IF cur > val
        THEN [w EXCEPT !.rows = RemoveRows(w.rows, val, cur)]
        ELSE [w EXCEPT !.rows = InsertRows(w.rows, cur, val, w.layers)]

\* WaveguideGUI.updateLayers(val) up to the view lookup: the four combo boxes
\* cleared and self.layers emptied.
LayersCleared(w) ==
    [w EXCEPT !.combo = [c \in Combos |-> comboOf(<<>>)], !.layers = <<>>]

\* WaveguideGUI.updateLayers(val) with a view open.
WaveguideGUI_updateLayers(w, v) ==
    LET items == v[1]
    IN  [w EXCEPT !.layers = items,
                  !.combo = [c \in Combos |->
                               IF c = "ribLayer2" THEN setCurrentIndex(comboOf(items), 2)
                               ELSE comboOf(items)]]

\* WaveguideGUI.show(): the dialog after the call; without a view updateLayers
\* raises and the call stops there.
WaveguideGUI_show(w, v) ==
    IF v = None THEN LayersCleared(w)
    ELSE [WaveguideGUI_updateTable(WaveguideGUI_updateLayers(LayersCleared(w), v), 0)
            EXCEPT !.initialized = TRUE, !.visible = TRUE]

RECURSIVE CustomWgs(_, _, _, _)
\* The loop over the rows of layerTable in get_parameters: the list wgs and the
\* width so far, or the exception that ends it.
CustomWgs(w, i, wgs, width) ==
    IF i >= w.numLayers THEN [kind |-> "dict", wgs |-> wgs, width |-> width]
    ELSE IF i >= Len(w.rows) THEN [kind |-> "AttributeError"]
    ELSE LET row == w.rows[i + 1]
             wd == float(row.width)
             off == float(row.offset)
         IN  IF wd = None \/ off = None THEN [kind |-> "ValueError"]
             ELSE LET ww == ((wd[1] \div 2) + off[1]) * 2
                  IN  CustomWgs(w, i + 1,
                                Append(wgs, [layer |-> LayerName(currentText(row.layer)),
                                             width |-> wd[1], offset |-> off[1]]),
                                IF width < ww THEN ww ELSE width)

\* The parameters get_parameters builds once the dialog is initialized, or the
\* exception a text that is no number, or a missing table row, raises.
Params(w) ==
    LET f(name) == float(w.text[name])
        layer(name) == LayerName(currentText(w.combo[name]))
        wg1(l, wd, off) == [layer |-> l, width |-> wd, offset |-> off]
        dict(wgs, width) ==
            [kind |-> "dict",
             params |-> [radius |-> f("radius")[1], width |-> width,
                         adiabatic |-> w.adiabatic, bezier |-> f("bezier")[1],
                         wgs |-> wgs]]
    IN  IF f("radius") = None \/ f("bezier") = None THEN [kind |-> "ValueError"]
        ELSE CASE w.radio = "radioStrip" ->
                    IF f("stripWidth") = None THEN [kind |-> "ValueError"]
                    ELSE dict(<<wg1(layer("stripLayer"), f("stripWidth")[1], 0)>>,
                              f("stripWidth")[1])
               [] w.radio = "radioRib" ->
                    IF f("ribWidth1") = None \/ f("ribWidth2") = None
                    THEN [kind |-> "ValueError"]
                    ELSE dict(<<wg1(layer("ribLayer1"), f("ribWidth1")[1], 0),
                                wg1(layer("ribLayer2"), f("ribWidth2")[1], 0)>>,
                              f("ribWidth1")[1])
               [] w.radio = "radioSlot" ->
                    IF f("slotWidth1") = None \/ f("slotWidth2") = None
                    THEN [kind |-> "ValueError"]
                    ELSE LET w1 == f("slotWidth1")[1]
                             w2 == f("slotWidth2")[1]
                         IN  dict(<<wg1(layer("slotLayer"), (w1 - w2) \div 2, (w1 + w2) \div 4),
                                    wg1(layer("slotLayer"), (w1 - w2) \div 2,
                                        0 - ((w1 + w2) \div 4))>>,
                                  w1)
               [] w.radio = "radioCustom" ->
                    LET r == CustomWgs(w, 0, <<>>, 0)
                    IN  IF r.kind = "dict" THEN dict(r.wgs, r.width) ELSE r

\* WaveguideGUI.get_parameters(): what the call returns, or the exception
\* that leaves it.  "None" is the return value None.
WaveguideGUI_get_parameters(w, v) ==
    IF ~w.initialized
    THEN IF v = None THEN [kind |-> "Exception"] ELSE [kind |-> "None"]
    ELSE Params(w)

\* The state after WaveguideGUI(): the widgets as the form file has them (no
\* table rows, numLayers 0, empty combo boxes), radioStrip clicked.
InitWaveguideGUI ==
    /\ view \in {None, Some(ViewLayers)}
    /\ wg = [ initialized |-> FALSE,
              layers      |-> <<>>,
              visible     |-> FALSE,
              radio       |-> "radioStrip",
              adiabatic   |-> FALSE,
              numLayers   |-> 0,
              rows        |-> <<>>,
              text        |-> [n \in LineEdits |-> "0.5"],
              combo       |-> [c \in Combos |-> comboOf(<<>>)],
              edits       |-> 0 ]

\* show()
WgShow ==
    /\ wg' = WaveguideGUI_show(wg, view)
    /\ gui_call' = [op |-> "show", dialog |-> "WaveguideGUI", raised |-> view = None]
    /\ UNCHANGED <<view, notwg>>

\* get_parameters(): a dialog that is not initialized is shown.
WgGetParameters ==
    /\ wg' = IF wg.initialized THEN wg ELSE WaveguideGUI_show(wg, view)
    /\ gui_call' = [op |-> "get_parameters", dialog |-> "WaveguideGUI",
                    initialized |-> wg.initialized,
                   ret |-> WaveguideGUI_get_parameters(wg, view)]
    /\ UNCHANGED <<view, notwg>>

\* The user changes numLayers to val: valueChanged(val) calls updateTable(val).
WgNumLayers ==
    /\ wg.visible /\ Enabled(wg, "numLayers")
    /\ \E val \in 0..MaxLayers :
         /\ val # wg.numLayers
         /\ wg' = WaveguideGUI_updateTable([wg EXCEPT !.numLayers = val], val)
         /\ gui_call' = [op |-> "updateTable", dialog |-> "WaveguideGUI",
                         val |-> val, cur |-> Len(wg.rows)]
    /\ UNCHANGED <<view, notwg>>

\* The user checks another radio button (toggled calls updateFields).
WgRadio ==
    /\ wg.visible
    /\ \E r \in Radios \ {wg.radio} : wg' = [wg EXCEPT !.radio = r]
    /\ gui_call' = [op |-> "updateFields", dialog |-> "WaveguideGUI"]
    /\ UNCHANGED <<view, notwg>>

\* The user toggles the adiabatic check box (toggled calls updateFields).
WgAdiabatic ==
    /\ wg.visible
    /\ wg' = [wg EXCEPT !.adiabatic = ~wg.adiabatic]
    /\ gui_call' = [op |-> "updateFields", dialog |-> "WaveguideGUI"]
    /\ UNCHANGED <<view, notwg>>

\* The user types into an enabled line edit of the form.
WgEditText ==
    /\ wg.visible /\ wg.edits < MaxEdits
    /\ \E n \in LineEdits, t \in Texts :
         /\ Enabled(wg, n) /\ t # wg.text[n]
         /\ wg' = [wg EXCEPT !.text[n] = t, !.edits = @ + 1]
    /\ gui_call' = [op |-> "edit", dialog |-> "WaveguideGUI"]
    /\ UNCHANGED <<view, notwg>>

\* The user types into the width of a row of layerTable.
WgEditCell ==
    /\ wg.visible /\ wg.edits < MaxEdits /\ Enabled(wg, "layerTable")
    /\ \E i \in DOMAIN wg.rows, t \in Texts :
         /\ t # wg.rows[i].width
         /\ wg' = [wg EXCEPT !.rows[i].width = t, !.edits = @ + 1]
    /\ gui_call' = [op |-> "edit", dialog |-> "WaveguideGUI"]
    /\ UNCHANGED <<view, notwg>>

\* close(val) and ok(val): the window closes (ok then runs
\* scripts.waveguide_from_path, which reads the dialog through get_parameters).
WgClose ==
    /\ wg.visible
    /\ wg' = [wg EXCEPT !.visible = FALSE]
    /\ \E op \in {"close", "ok"} : gui_call' = [op |-> op, dialog |-> "WaveguideGUI"]
    /\ UNCHANGED <<view, notwg>>

\* The host opens a view, or closes the one that is open.
ViewChange ==
    /\ view' = IF view = None THEN Some(ViewLayers) ELSE None
    /\ UNCHANGED <<wg, gui_call, notwg>>

\* ------------------------------------------------------------------ CalibreGUI, MonteCarloGUI

Dialogs == {"CalibreGUI", "MonteCarloGUI"}

\* The line edits of the CalibreGUI form, as the form file has them.
CalibreTexts == [n \in {"url", "port", "pdk", "calibre", "identity"} |-> ""]

\* CalibreGUI.get_parameters()
CalibreGUI_get_parameters == [kind |-> "dict", params |-> CalibreTexts]

\* MonteCarloGUI.get_parameters()
MonteCarloGUI_get_parameters == [kind |-> "dict", params |-> <<>>]

\* The state after CalibreGUI() and MonteCarloGUI().
InitDialogs ==
    /\ dlg = [d \in Dialogs |-> [status |-> None, visible |-> FALSE]]
    /\ dlg_set = [d \in Dialogs |-> None]
    /\ dlg_reads = [d \in Dialogs |-> 0]

\* return_status() that returns the status and leaves it set.
return_status_keep(d) ==
    /\ gui_call' = [op |-> "return_status", dialog |-> d, ret |-> dlg[d].status]
    /\ dlg_reads' = [dlg_reads EXCEPT ![d] = IF @ < 2 THEN @ + 1 ELSE 2]
    /\ UNCHANGED <<dlg, dlg_set, notdlg>>

\* return_status(): returns the status and resets it to None.
return_status(d) ==
    /\ dlg' = [dlg EXCEPT ![d].status = None]
    /\ gui_call' = [op |-> "return_status", dialog |-> d, ret |-> dlg[d].status]
    /\ dlg_reads' = [dlg_reads EXCEPT ![d] = IF @ < 2 THEN @ + 1 ELSE 2]
    /\ UNCHANGED <<dlg_set, notdlg>>

\* ok(val) and close(val): the status is set, the window closes, and the
\* script runs (scripts.calibreDRC, interconnect.monte_carlo); the script may
\* read the status through return_status() before the handler returns.
SetStatus(d, op, value) ==
    /\ \E read \in BOOLEAN :
         /\ dlg' = [dlg EXCEPT ![d] = [status |-> IF read THEN None ELSE Some(value),
                                       visible |-> FALSE]]
         /\ dlg_reads' = [dlg_reads EXCEPT ![d] = IF read THEN 1 ELSE 0]
         /\ gui_call' = IF read
                        THEN [op |-> "return_status", dialog |-> d, ret |-> Some(value)]
                        ELSE [op |-> op, dialog |-> d]
    /\ dlg_set' = [dlg_set EXCEPT ![d] = Some(value)]
    /\ UNCHANGED notdlg

\* show()
DialogShow(d) ==
    /\ dlg' = [dlg EXCEPT ![d].visible = TRUE]
    /\ gui_call' = [op |-> "show", dialog |-> d]
    /\ UNCHANGED <<dlg_set, dlg_reads, notdlg>>

CalibreGUI_show == DialogShow("CalibreGUI")
CalibreGUI_close == SetStatus("CalibreGUI", "close", FALSE)
CalibreGUI_ok == SetStatus("CalibreGUI", "ok", TRUE)
CalibreGUI_return_status == return_status("CalibreGUI")

MonteCarloGUI_show == DialogShow("MonteCarloGUI")
MonteCarloGUI_close == SetStatus("MonteCarloGUI", "close", FALSE)
MonteCarloGUI_ok == SetStatus("MonteCarloGUI", "ok", TRUE)
MonteCarloGUI_return_status == return_status("MonteCarloGUI")

\* get_parameters() of either dialog: nothing but the call record changes.
DialogGetParameters ==
    /\ \/ gui_call' = [op |-> "get_parameters", dialog |-> "CalibreGUI",
                       ret |-> CalibreGUI_get_parameters]
       \/ gui_call' = [op |-> "get_parameters", dialog |-> "MonteCarloGUI",
                       ret |-> MonteCarloGUI_get_parameters]
    /\ UNCHANGED <<dlg, dlg_set, dlg_reads, notdlg>>

\* ------------------------------------------------------------------ specifications

\* The classes a specification does not move rest in one fixed state.
IdlePin ==
    /\ pin = Pin_init(None, Some("ELECTRICAL"), None, None, "component0", None, "pin1")
    /\ pin_net_arg = None
    /\ pin_polygon_arg = None
    /\ pin_trans = None
    /\ pin_ret = None

IdleComponent ==
    /\ active_tech = Some("EBeam")
    /\ comp = Component_init(0, "ebeam_y_1550", <<>>, <<Pt(0, 0), Pt(2, 4)>>,
                             get_technology(Some("EBeam")))
    /\ comp_found = None
    /\ hm_result = None
    /\ hm_tech = None

IdleNet == nets = <<>>

\* No call has been made on a dialog yet.
InitCall == gui_call = [op |-> "__init__", dialog |-> ""]

IdleWaveguideGUI == InitWaveguideGUI /\ view = None

\* One Pin and its transforms.
InitSpecPin == InitPin /\ IdleComponent /\ IdleNet /\ IdleWaveguideGUI /\ InitDialogs /\ InitCall

NextPin == PinTransform

SpecPin == InitSpecPin /\ [][NextPin]_vars

\* One Component, its pin discovery and its model query.
InitSpecComponent ==
    IdlePin /\ InitComponent /\ IdleNet /\ IdleWaveguideGUI /\ InitDialogs /\ InitCall

NextComponent ==
    \/ ComponentFindPins
    \/ ComponentAssignPins
    \/ ComponentHasModel
    \/ SetTechnology

SpecComponent == InitSpecComponent /\ [][NextComponent]_vars

\* The Net objects a caller constructs.
InitSpecNet == IdlePin /\ IdleComponent /\ InitNet /\ IdleWaveguideGUI /\ InitDialogs /\ InitCall

NextNet == NetConstruct

SpecNet == InitSpecNet /\ [][NextNet]_vars

\* The three dialogs: the WaveguideGUI in full, and get_parameters of the others.
InitSpecWaveguideGUI ==
    IdlePin /\ IdleComponent /\ IdleNet /\ InitWaveguideGUI /\ InitDialogs /\ InitCall

NextWaveguideGUI ==
    \/ WgShow
    \/ WgGetParameters
    \/ WgNumLayers
    \/ WgRadio
    \/ WgAdiabatic
    \/ WgEditText
    \/ WgEditCell
    \/ WgClose
    \/ ViewChange
    \/ DialogGetParameters

SpecWaveguideGUI == InitSpecWaveguideGUI /\ [][NextWaveguideGUI]_vars

\* CalibreGUI and MonteCarloGUI.
InitSpecDialogs ==
    IdlePin /\ IdleComponent /\ IdleNet /\ IdleWaveguideGUI /\ InitDialogs /\ InitCall

NextDialogs ==
    \/ CalibreGUI_show
    \/ CalibreGUI_close
    \/ CalibreGUI_ok
    \/ CalibreGUI_return_status
    \/ MonteCarloGUI_show
    \/ MonteCarloGUI_close
    \/ MonteCarloGUI_ok
    \/ MonteCarloGUI_return_status
    \/ DialogGetParameters

SpecDialogs == InitSpecDialogs /\ [][NextDialogs]_vars

\* ------------------------------------------------------------------ claims: Pin

\* C1: transform(identity) applied to a Pin freshly constructed from a
\* two-point path leaves its center and its rotation unchanged.
C1_IdentityTransformKeepsCenterAndRotation ==
    [][(/\ pin.type = Some("OPTICAL") /\ pin.path # None
        /\ pin.box = None /\ pin_polygon_arg = None
        /\ pin_trans = None /\ pin_trans' = Some(TRUE))
         => (pin'.center = pin.center /\ pin'.rotation = pin.rotation)]_vars

\* c is s * 0.5 as a coordinate: exact when s is even, else the nearer integer
\* away from zero.
IsHalf(c, s) == IF s % 2 = 0 THEN 2 * c = s ELSE 2 * c = s + Sign(s)

\* C4 as stated: the center of an OPTICAL Pin is the midpoint of the two
\* points of its path, after construction and after every transform.
C4_OpticalCenterIsMidpoint ==
    (pin.type = Some("OPTICAL") /\ pin.path # None)
      => /\ pin.center # None
         /\ IsHalf(pin.center[1].x, pin.path[1].x + pin.path[2].x)
         /\ IsHalf(pin.center[1].y, pin.path[1].y + pin.path[2].y)

\* C4 amended: the center of an OPTICAL Pin with a path is the midpoint of the
\* two points of its path after construction with neither a box nor a polygon,
\* and after every transform whatever it was constructed with.
C4_CenterIsMidpointUnlessOverridden ==
    (/\ pin.type = Some("OPTICAL") /\ pin.path # None
     /\ \/ pin_trans # None
        \/ pin.box = None /\ pin_polygon_arg = None)
      => /\ pin.center # None
         /\ IsHalf(pin.center[1].x, pin.path[1].x + pin.path[2].x)
         /\ IsHalf(pin.center[1].y, pin.path[1].y + pin.path[2].y)

\* An OPTICAL Pin constructed with a path and a box, whose path a transform
\* other than the identity has moved.
C4_Witness ==
    /\ pin.type = Some("OPTICAL") /\ pin.path # None /\ pin.box # None
    /\ pin_trans = Some(FALSE)
    /\ pin.path[1] # pin.path[2]
    /\ (pin.path[1].x + pin.path[2].x) % 2 = 1

\* C5: a Pin is bound to one Net: the sentinel NET_DISCONNECTED when it was
\* constructed without a net, else the net it was constructed with; transform
\* does not change it.
C5_PinBoundToItsNet ==
    pin.net = (IF pin_net_arg = None THEN NET_DISCONNECTED ELSE pin_net_arg[1])

\* A Pin constructed with a net, after a transform that moved its path.
C5_Witness ==
    /\ pin_net_arg = Some("net1")
    /\ pin.path # None
    /\ pin_trans = Some(FALSE)

\* C8: transform(T) of a Pin without a path changes no attribute of the Pin and
\* returns that Pin.
C8_NoPathTransformIsNoOp ==
    [][pin.path = None => (pin' = pin /\ pin_ret' = Some(pin))]_vars

\* A box Pin after a transform that is not the identity.
C8_Witness ==
    /\ pin.path = None /\ pin.box # None
    /\ pin_trans = Some(FALSE)
    /\ pin_ret = Some(pin)

\* ------------------------------------------------------------------ claims: Component

\* C2: npins is the length of the pins list in every state.
C2_NpinsIsLenPins == comp.npins = Len(comp.pins)

\* C3: has_model() returns false, and raises nothing, when the active
\* technology is unset or cannot be resolved.
C3_HasModelNeverRaises ==
    (hm_result # None /\ (hm_tech = None \/ hm_tech[1] \notin InstalledTechs))
      => hm_result = Some("False")

\* ------------------------------------------------------------------ claims: Net

\* C6: a Net of type OPTICAL has exactly two pins.
C6_OpticalNetHasTwoPins ==
    \A i \in DOMAIN nets :
       nets[i].type = Some("OPTICAL")
         => (nets[i].pins # None /\ Len(nets[i].pins[1]) = 2)

\* ------------------------------------------------------------------ claims: dialogs

\* C7: get_parameters() of a dialog returns a configuration mapping in every
\* state of the dialog, also before the dialog has been shown: no call returns
\* anything else and none is left by an exception.
C7_GetParametersReturnsMapping ==
    gui_call.op = "get_parameters" => gui_call.ret.kind = "dict"

\* C9: after updateTable(val) the layer table has val rows.
C9_UpdateTableLeavesValRows ==
    gui_call.op = "updateTable" => Len(wg.rows) = gui_call.val

\* C10: the status is None after construction, ok() sets True and close()
\* sets False, return_status() returns what the most recent ok()/close() set
\* and resets the status to None, and a second return_status() returns None.
C10_StatusIsReadOnce ==
    \A d \in Dialogs :
       /\ dlg_reads[d] = 0 => dlg[d].status = dlg_set[d]
       /\ dlg_reads[d] > 0 => dlg[d].status = None
       /\ (gui_call.op = "return_status" /\ gui_call.dialog = d)
            => gui_call.ret = (IF dlg_reads[d] = 1 THEN dlg_set[d] ELSE None)

\* return_status() was called twice after ok(): the second call returned None.
C10_Witness ==
    /\ gui_call.op = "return_status" /\ gui_call.dialog = "CalibreGUI"
    /\ dlg_set["CalibreGUI"] = Some(TRUE)
    /\ dlg_reads["CalibreGUI"] = 2
    /\ gui_call.ret = None

====
